---- MODULE Spec2Model ----
(***************************************************************************)
(* Model of s3-tidy's scan command (main.go, runScan): the pagination      *)
(* loop over a bucket listing, the classification of each record against   *)
(* the cutoff, the three modes (report-only, dry-run, live deletion) and   *)
(* the summary.  The storage backend is the environment: it answers each   *)
(* list request with a page or an error and each delete with success or    *)
(* an error.  Every blocking call of runScan is split into the step that   *)
(* issues the request and the step that receives its answer.               *)
(***************************************************************************)
EXTENDS Integers, Sequences, FiniteSets, TLC

\* ---------------------------------------------------------------- bounds
MaxPages == 2        \* pages the backend serves before it stops truncating
MaxPageLen == 2      \* records in one page
MaxRecords == 3      \* records in the whole listing

\* cutoff := time.Now().AddDate(0, 0, -days), as a day number
Cutoff == 10

\* optional values (Go pointers): <<>> is nil, <<v>> is a pointer to v
Nil == <<>>
Some(v) == <<v>>

\* last-modified times the backend may report: older, equal, newer
Times == {Cutoff - 1, Cutoff, Cutoff + 1}
\* obj.Size is *int64: nil or a byte count
Sizes == {Nil, Some(1), Some(2)}

\* what the backend chooses for one record; the key is assigned on listing
RecordChoices == [lastModified : Times, size : Sizes]

VARIABLES
    isDryRun,      \* --dry-run flag
    isReport,      \* --report flag
    pc,            \* position of runScan
    firstPage,     \* paginator: no page requested yet
    nextToken,     \* paginator: continuation token of the last page
    page,          \* page.Contents of the page being processed
    idx,           \* position of the range loop in page
    staleCount,
    totalSize,
    deletedCount,
    out,           \* lines written so far (stdout and the logger)
    exitCode,      \* Nil while running, Some(code) once the process ended
    inflight,      \* backend requests issued and not yet answered
    listed,        \* history: every record the backend has listed
    processed,     \* history: keys whose loop iteration has finished
    deleteCalls,   \* history: keys DeleteObject was called with
    failedDeletes  \* history: keys whose DeleteObject returned an error

vars == <<isDryRun, isReport, pc, firstPage, nextToken, page, idx,
          staleCount, totalSize, deletedCount, out, exitCode, inflight,
          listed, processed, deleteCalls, failedDeletes>>

\* ------------------------------------------------------------- helpers
Min(a, b) == IF a < b THEN a ELSE b

Line(kind, key, n, bytes) == [kind |-> kind, key |-> key, n |-> n, bytes |-> bytes]

\* log.Fatalf: write the diagnostic, then os.Exit(1)
Fatalf_ExitZero(o, kind) == [out |-> Append(o, Line(kind, 0, 0, 0)), exitCode |-> Some(0)]
Fatalf(o, kind) == [out |-> Append(o, Line(kind, 0, 0, 0)), exitCode |-> Some(1)]

\* time.Time.Before
Before_OrEqual(t, u) == t <= u
Before(t, u) == t < u

\* if obj.Size != nil { totalSize += *obj.Size }
AddSize_CountsOne(total, size) == total + 1
AddSize(total, size) == IF size # Nil THEN total + size[1] ELSE total

\* what the loop body does with a stale record: the isReport test comes
\* first, then the isDryRun test
RecordAction_DryRunFirst(report, dryRun) ==
    IF dryRun THEN (IF report THEN "skip" ELSE "print") ELSE "delete"
RecordAction_DryRunSilent(report, dryRun) ==
    IF report \/ dryRun THEN "skip" ELSE "delete"
RecordAction(report, dryRun) ==
    IF report THEN "skip" ELSE IF dryRun THEN "print" ELSE "delete"

\* paginator.HasMorePages()
HasMorePages == firstPage \/ nextToken # Nil

\* err != nil after paginator.NextPage: log.Fatalf
OnListError_Break(o) ==
    [pc |-> "loopExit", out |-> Append(o, Line("fatalList", 0, 0, 0)), exitCode |-> Nil]
OnListError(o) ==
    [pc |-> "aborted", out |-> Fatalf(o, "fatalList").out,
     exitCode |-> Fatalf(o, "fatalList").exitCode]

\* the if/else after client.DeleteObject: an error is logged with
\* log.Printf and the loop goes on; success prints the confirmation and
\* increments deletedCount
OnDeleteReturn_Fatal(ok, o, key, deleted) ==
    IF ok
    THEN [pc |-> "records", out |-> Append(o, Line("deleted", key, 0, 0)),
          exitCode |-> Nil, deletedCount |-> deleted + 1]
    ELSE [pc |-> "aborted", out |-> Append(o, Line("warn", key, 0, 0)),
          exitCode |-> Some(1), deletedCount |-> deleted]
OnDeleteReturn_CountsFailed(ok, o, key, deleted) ==
    IF ok
    THEN [pc |-> "records", out |-> Append(o, Line("deleted", key, 0, 0)),
          exitCode |-> Nil, deletedCount |-> deleted + 1]
    ELSE [pc |-> "records", out |-> Append(o, Line("warn", key, 0, 0)),
          exitCode |-> Nil, deletedCount |-> deleted + 1]
OnDeleteReturn(ok, o, key, deleted) ==
    IF ok
    THEN [pc |-> "records", out |-> Append(o, Line("deleted", key, 0, 0)),
          exitCode |-> Nil, deletedCount |-> deleted + 1]
    ELSE [pc |-> "records", out |-> Append(o, Line("warn", key, 0, 0)),
          exitCode |-> Nil, deletedCount |-> deleted]

\* where runScan is after calling client.DeleteObject: it blocks on the call
AfterDeleteCall_Async(i) == [pc |-> "records", idx |-> i + 1]
AfterDeleteCall(i) == [pc |-> "deleting", idx |-> i]

\* the summary line chosen by the flags
SummaryLine_LiveStale(report, dryRun, stale, bytes, deleted) ==
    IF report THEN Line("costReport", 0, stale, bytes)
    ELSE IF dryRun THEN Line("dryRunSummary", 0, stale, bytes)
    ELSE Line("liveSummary", 0, stale, 0)
SummaryLine(report, dryRun, stale, bytes, deleted) ==
    IF report THEN Line("costReport", 0, stale, bytes)
    ELSE IF dryRun THEN Line("dryRunSummary", 0, stale, bytes)
    ELSE Line("liveSummary", 0, deleted, 0)

\* ---------------------------------------------------------------- Init
Init ==
    /\ isDryRun \in BOOLEAN
    /\ isReport \in BOOLEAN
    /\ pc = "start"
    /\ firstPage = TRUE
    /\ nextToken = Nil
    /\ page = <<>>
    /\ idx = 1
    /\ staleCount = 0
    /\ totalSize = 0
    /\ deletedCount = 0
    /\ out = <<>>
    /\ exitCode = Nil
    /\ inflight = <<>>
    /\ listed = <<>>
    /\ processed = <<>>
    /\ deleteCalls = <<>>
    /\ failedDeletes = <<>>

\* ------------------------------------------------------------- actions
\* config.LoadDefaultConfig: on error log.Fatalf, else print the header
LoadConfig ==
    /\ pc = "start"
    /\ \E ok \in BOOLEAN :
        IF ok
        THEN /\ out' = Append(out, Line("header", 0, 0, 0))
             /\ pc' = "loop"
             /\ exitCode' = exitCode
        ELSE /\ out' = Fatalf(out, "fatalConfig").out
             /\ exitCode' = Fatalf(out, "fatalConfig").exitCode
             /\ pc' = "aborted"
    /\ UNCHANGED <<isDryRun, isReport, firstPage, nextToken, page, idx,
                   staleCount, totalSize, deletedCount, inflight, listed,
                   processed, deleteCalls, failedDeletes>>

\* for paginator.HasMorePages() { page, err := paginator.NextPage(ctx)
NextPageRequest ==
    /\ pc = "loop"
    /\ HasMorePages
    /\ inflight' = Append(inflight, [op |-> "list", key |-> 0])
    /\ pc' = "listing"
    /\ UNCHANGED <<isDryRun, isReport, firstPage, nextToken, page, idx,
                   staleCount, totalSize, deletedCount, out, exitCode,
                   listed, processed, deleteCalls, failedDeletes>>

\* the loop condition is false: leave the loop
LoopExit ==
    /\ pc = "loop"
    /\ ~HasMorePages
    /\ pc' = "loopExit"
    /\ UNCHANGED <<isDryRun, isReport, firstPage, nextToken, page, idx,
                   staleCount, totalSize, deletedCount, out, exitCode,
                   inflight, listed, processed, deleteCalls, failedDeletes>>

\* number of pages served so far
PagesServed == IF firstPage THEN 0 ELSE IF nextToken = Nil THEN 0 ELSE nextToken[1]

\* the answer to NextPage: an error, or a page with or without a
\* continuation token
NextPageReturn ==
    /\ pc = "listing"
    /\ inflight # <<>> /\ inflight[1].op = "list"
    /\ inflight' = Tail(inflight)
    /\ \/ /\ pc' = OnListError(out).pc
          /\ out' = OnListError(out).out
          /\ exitCode' = OnListError(out).exitCode
          /\ UNCHANGED <<firstPage, nextToken, page, idx, listed>>
       \/ \E n \in 0..Min(MaxPageLen, MaxRecords - Len(listed)) :
          \E f \in [1..n -> RecordChoices] :
          \E truncated \in BOOLEAN :
             /\ truncated => PagesServed + 1 < MaxPages
             /\ LET contents == [i \in 1..n |->
                        [key |-> Len(listed) + i,
                         lastModified |-> f[i].lastModified,
                         size |-> f[i].size,
                         pageNo |-> PagesServed + 1]]
                IN /\ page' = contents
                   /\ listed' = listed \o contents
             /\ idx' = 1
             /\ firstPage' = FALSE
             /\ nextToken' = IF truncated THEN Some(PagesServed + 1) ELSE Nil
             /\ pc' = "records"
             /\ UNCHANGED <<out, exitCode>>
    /\ UNCHANGED <<isDryRun, isReport, staleCount, totalSize, deletedCount,
                   processed, deleteCalls, failedDeletes>>

\* one iteration of  for _, obj := range page.Contents  up to the point
\* where it blocks on DeleteObject or finishes
ProcessRecord ==
    /\ pc = "records"
    /\ idx <= Len(page)
    /\ LET obj == page[idx] IN
       IF ~Before(obj.lastModified, Cutoff)
       THEN /\ idx' = idx + 1
            /\ pc' = pc
            /\ processed' = Append(processed, obj.key)
            /\ UNCHANGED <<staleCount, totalSize, out, inflight, deleteCalls>>
       ELSE /\ staleCount' = staleCount + 1
            /\ totalSize' = AddSize(totalSize, obj.size)
            /\ LET act == RecordAction(isReport, isDryRun) IN
               CASE act = "skip" ->
                      /\ idx' = idx + 1
                      /\ pc' = pc
                      /\ processed' = Append(processed, obj.key)
                      /\ UNCHANGED <<out, inflight, deleteCalls>>
                 [] act = "print" ->
                      /\ out' = Append(out, Line("dryRun", obj.key, 0, 0))
                      /\ idx' = idx + 1
                      /\ pc' = pc
                      /\ processed' = Append(processed, obj.key)
                      /\ UNCHANGED <<inflight, deleteCalls>>
                 [] act = "delete" ->
                      /\ inflight' = Append(inflight, [op |-> "delete", key |-> obj.key])
                      /\ deleteCalls' = Append(deleteCalls, obj.key)
                      /\ pc' = AfterDeleteCall(idx).pc
                      /\ idx' = AfterDeleteCall(idx).idx
                      /\ UNCHANGED <<out, processed>>
    /\ UNCHANGED <<isDryRun, isReport, firstPage, nextToken, page,
                   deletedCount, exitCode, listed, failedDeletes>>

\* the answer to DeleteObject: success or an error
DeleteReturn ==
    /\ pc = "deleting"
    /\ inflight # <<>> /\ inflight[1].op = "delete"
    /\ \E ok \in BOOLEAN :
       LET key == inflight[1].key
           r == OnDeleteReturn(ok, out, key, deletedCount)
       IN /\ inflight' = Tail(inflight)
          /\ processed' = Append(processed, key)
          /\ out' = r.out
          /\ pc' = r.pc
          /\ exitCode' = r.exitCode
          /\ deletedCount' = r.deletedCount
          /\ failedDeletes' = IF ok THEN failedDeletes ELSE Append(failedDeletes, key)
    /\ idx' = idx + 1
    /\ UNCHANGED <<isDryRun, isReport, firstPage, nextToken, page,
                   staleCount, totalSize, listed, deleteCalls>>

\* the range loop is over: back to the loop condition
EndPage ==
    /\ pc = "records"
    /\ idx > Len(page)
    /\ pc' = "loop"
    /\ UNCHANGED <<isDryRun, isReport, firstPage, nextToken, page, idx,
                   staleCount, totalSize, deletedCount, out, exitCode,
                   inflight, listed, processed, deleteCalls, failedDeletes>>

\* the separator and the summary; runScan returns and main exits with 0
Summary ==
    /\ pc = "loopExit"
    /\ out' = out \o <<Line("separator", 0, 0, 0),
                       SummaryLine(isReport, isDryRun, staleCount, totalSize, deletedCount)>>
    /\ pc' = "done"
    /\ exitCode' = Some(0)
    /\ UNCHANGED <<isDryRun, isReport, firstPage, nextToken, page, idx,
                   staleCount, totalSize, deletedCount, inflight, listed,
                   processed, deleteCalls, failedDeletes>>

Next ==
    \/ LoadConfig
    \/ NextPageRequest
    \/ LoopExit
    \/ NextPageReturn
    \/ ProcessRecord
    \/ DeleteReturn
    \/ EndPage
    \/ Summary

Spec == Init /\ [][Next]_vars

\* --------------------------------------------------- property vocabulary
\* the listed records strictly older than the cutoff, in listing order
StaleListed == SelectSeq(listed, LAMBDA r : r.lastModified < Cutoff)
\* the listed records at or after the cutoff
FreshListed == SelectSeq(listed, LAMBDA r : r.lastModified >= Cutoff)
KeysOf(recs) == [i \in DOMAIN recs |-> recs[i].key]
Range(seq) == {seq[i] : i \in DOMAIN seq}
IsPrefix(a, b) == Len(a) <= Len(b) /\ a = SubSeq(b, 1, Len(a))

RECURSIVE SumKnownSizes(_)
SumKnownSizes(recs) ==
    IF recs = <<>> THEN 0
    ELSE (IF Head(recs).size = Nil THEN 0 ELSE Head(recs).size[1])
         + SumKnownSizes(Tail(recs))

LinesOf(kinds) == SelectSeq(out, LAMBDA l : l.kind \in kinds)
SummaryKinds == {"costReport", "dryRunSummary", "liveSummary"}
PerObjectKinds == {"dryRun", "deleted", "warn"}
DeleteOutstanding == \E i \in DOMAIN inflight : inflight[i].op = "delete"
LiveMode == ~isReport /\ ~isDryRun
DryMode == ~isReport /\ isDryRun
ListingFailed == out # <<>> /\ out[Len(out)].kind = "fatalList"

\* ---------------------------------------------------------------- claims

\* C1: in report-only mode DeleteObject is never called, whatever the
\* listing is and whatever the dry-run flag is.
C1_ReportNeverDeletes ==
    isReport => (deleteCalls = <<>> /\ ~DeleteOutstanding /\ deletedCount = 0)

\* a report-only scan with dry-run=false that listed stale records and
\* went through to its summary
C1_Witness ==
    isReport /\ ~isDryRun /\ pc = "done" /\ Len(StaleListed) >= 2

\* C2: with dry-run=true and report=false DeleteObject is never called,
\* and a completed scan has printed one "[DRY RUN] Would delete" line per
\* stale record and none for a fresh one, as many as the stale count.
C2_DryRunLinesEqualStale ==
    DryMode =>
        /\ deleteCalls = <<>> /\ ~DeleteOutstanding
        /\ pc = "done" =>
            /\ Len(LinesOf({"dryRun"})) = staleCount
            /\ [i \in DOMAIN LinesOf({"dryRun"}) |-> LinesOf({"dryRun"})[i].key]
                   = KeysOf(StaleListed)

\* a completed dry run over stale and fresh records
C2_Witness ==
    DryMode /\ pc = "done" /\ Len(StaleListed) >= 2 /\ FreshListed # <<>>

\* C3: in live mode a completed scan has called DeleteObject exactly once
\* per stale record; deletedCount <= staleCount, deletedCount is staleCount
\* minus the failed deletes, and it is smaller only if a delete failed.
C3_LiveDeleteOncePerStale ==
    (LiveMode /\ pc = "done") =>
        /\ deleteCalls = KeysOf(StaleListed)
        /\ deletedCount <= staleCount
        /\ deletedCount = staleCount - Len(failedDeletes)
        /\ (deletedCount < staleCount) <=> (failedDeletes # <<>>)

\* a completed live scan with one delete that failed and one that succeeded
C3_Witness ==
    LiveMode /\ pc = "done" /\ failedDeletes # <<>> /\ deletedCount >= 1

\* C4: processing a record at or after the cutoff leaves staleCount,
\* totalSize, the delete calls and the output alone; processing an older
\* record adds exactly 1 to staleCount; so a completed scan's staleCount is
\* the number of listed records strictly older than the cutoff, and no
\* fresh key is ever deleted or printed.
C4_StepClassifies ==
    (pc = "records" /\ idx <= Len(page)) =>
        IF page[idx].lastModified >= Cutoff
        THEN /\ staleCount' = staleCount
             /\ totalSize' = totalSize
             /\ deleteCalls' = deleteCalls
             /\ inflight' = inflight
             /\ out' = out
        ELSE staleCount' = staleCount + 1
C4_StateClassifies ==
    /\ Range(deleteCalls) \cap Range(KeysOf(FreshListed)) = {}
    /\ \A i \in DOMAIN out :
          out[i].kind \in PerObjectKinds => out[i].key \notin Range(KeysOf(FreshListed))
    /\ pc = "done" => staleCount = Len(StaleListed)
C4_ClassificationByCutoff ==
    [][C4_StepClassifies]_vars /\ []C4_StateClassifies

\* a completed scan, not report-only, that listed a record exactly at the
\* cutoff, a newer one and an older one
C4_Witness ==
    /\ pc = "done" /\ ~isReport
    /\ \E i \in DOMAIN listed : listed[i].lastModified = Cutoff
    /\ \E i \in DOMAIN listed : listed[i].lastModified > Cutoff
    /\ StaleListed # <<>>

\* C5: after a completed scan totalSize is the sum of the sizes of the
\* stale records that have a size; a stale record without one adds nothing
\* to totalSize and 1 to staleCount; in every mode, whatever the deletes do.
C5_ByteTotal ==
    pc = "done" =>
        /\ totalSize = SumKnownSizes(StaleListed)
        /\ staleCount = Len(StaleListed)

\* a completed live scan with a failed delete, a stale record without a
\* size, a stale record of 2 bytes and a fresh record with a size
C5_Witness ==
    /\ pc = "done" /\ LiveMode /\ failedDeletes # <<>>
    /\ \E i \in DOMAIN StaleListed : StaleListed[i].size = Nil
    /\ \E i \in DOMAIN StaleListed : StaleListed[i].size = Some(2)
    /\ \E i \in DOMAIN FreshListed : FreshListed[i].size # Nil

\* C6 as stated: after a fatal error nothing of the report has been
\* written: no summary and no per-object line of an earlier page.
C6_Original ==
    pc = "aborted" =>
        LinesOf(SummaryKinds \cup {"separator", "dryRun", "deleted"}) = <<>>

\* C6 as amended: a listing failure aborts the run without separator or
\* summary, and a summary is there exactly when the run completed; in
\* report-only mode no per-object line is written, in dry-run and live mode
\* the per-object lines of the stale records of the pages processed before
\* the failure have been written and stay.
C6_NoSummaryOnAbort ==
    /\ (LinesOf(SummaryKinds) # <<>>) <=> (pc = "done")
    /\ (ListingFailed \/ LinesOf({"fatalList", "fatalConfig"}) # <<>>) =>
        /\ pc = "aborted"
        /\ LinesOf(SummaryKinds \cup {"separator"}) = <<>>
        /\ isReport => LinesOf(PerObjectKinds) = <<>>
        /\ ~isReport =>
              [i \in DOMAIN LinesOf(PerObjectKinds) |-> LinesOf(PerObjectKinds)[i].key]
                  = KeysOf(StaleListed)

\* a dry run whose second page failed after a stale record of the first
\* page was printed
C6_Witness ==
    /\ pc = "aborted" /\ ListingFailed /\ DryMode
    /\ LinesOf({"dryRun"}) # <<>>

\* C7: in live mode a failed delete is not fatal: the step that receives
\* the error leaves deletedCount alone, does not end the process and moves
\* to the next record; only a listing failure aborts a run; no key is
\* passed to DeleteObject twice.
C7_StepNonFatal ==
    (pc = "deleting" /\ failedDeletes' # failedDeletes) =>
        /\ deletedCount' = deletedCount
        /\ pc' = "records"
        /\ idx' = idx + 1
        /\ exitCode' = Nil
        /\ deleteCalls' = deleteCalls
C7_StateNonFatal ==
    /\ \A i, j \in DOMAIN deleteCalls : deleteCalls[i] = deleteCalls[j] => i = j
    /\ Range(failedDeletes) \subseteq Range(deleteCalls)
    /\ (failedDeletes # <<>> /\ pc = "aborted") => ListingFailed
    /\ Len(LinesOf({"deleted"})) = deletedCount
    /\ (pc = "done" /\ LiveMode) => out[Len(out)].n = Len(deleteCalls) - Len(failedDeletes)
C7_DeleteFailureNonFatal ==
    [][C7_StepNonFatal]_vars /\ []C7_StateNonFatal

\* a completed live scan whose first delete failed and that went on to
\* delete a record of a later page
C7_Witness ==
    /\ pc = "done" /\ LiveMode
    /\ failedDeletes # <<>>
    /\ \E i \in DOMAIN out : \E j \in DOMAIN out :
          /\ i < j /\ out[i].kind = "warn" /\ out[j].kind = "deleted"
          /\ \E a, b \in DOMAIN listed :
                /\ listed[a].key = out[i].key /\ listed[b].key = out[j].key
                /\ listed[a].pageNo < listed[b].pageNo

\* C8: a completed scan has written exactly one summary, as its last line,
\* after the last page was processed; the flags choose it: report gives
\* the cost report with the stale count and the bytes, dry-run without
\* report the dry-run summary with the stale count and the bytes, live
\* mode the live summary with the deleted count.  No run writes two.
C8_OneSummary ==
    /\ Len(LinesOf(SummaryKinds)) <= 1
    /\ Len(LinesOf(SummaryKinds)) = 1 <=> pc = "done"
    /\ pc = "done" =>
        /\ ~HasMorePages /\ inflight = <<>>
        /\ processed = KeysOf(listed)
        /\ out[Len(out)].kind \in SummaryKinds
        /\ isReport =>
              out[Len(out)] = Line("costReport", 0, Len(StaleListed), SumKnownSizes(StaleListed))
        /\ DryMode =>
              out[Len(out)] = Line("dryRunSummary", 0, Len(StaleListed), SumKnownSizes(StaleListed))
        /\ LiveMode =>
              out[Len(out)] = Line("liveSummary", 0, Len(LinesOf({"deleted"})), 0)

\* a completed live scan of two pages whose deleted count is below its
\* stale count
C8_Witness ==
    /\ pc = "done" /\ LiveMode
    /\ \E i \in DOMAIN listed : listed[i].pageNo = 2
    /\ deletedCount < staleCount /\ deletedCount >= 1

\* C9 as stated: the process ends with code 0 on normal completion, and a
\* fatal error does not end it with a non-zero code.
C9_Original ==
    pc \in {"done", "aborted"} => exitCode = Some(0)

\* C9 as amended: the process ends with code 0 on normal completion; a
\* fatal error (config or listing failure) ends it right after its
\* diagnostic with status 1, the same for both kinds of failure.
C9_ExitCodes ==
    /\ pc = "done" <=> exitCode = Some(0)
    /\ pc = "aborted" <=> exitCode = Some(1)
    /\ pc = "aborted" => out[Len(out)].kind \in {"fatalConfig", "fatalList"}
    /\ pc \notin {"done", "aborted"} <=> exitCode = Nil

\* a run aborted by a listing failure on its second page
C9_Witness ==
    pc = "aborted" /\ ListingFailed /\ listed # <<>> /\ exitCode = Some(1)

====
